---- MODULE Spec2Model ----
(***************************************************************************)
(* A model of the game session service of AI-Imposter                      *)
(* (backend/app/services/game_service.py).  One game room document, its    *)
(* two sub-collections (pending_messages, messages) and the game_results   *)
(* collection are the shared state; every request is handled by a worker   *)
(* whose position and local variables are part of the state.  Every        *)
(* Firestore round trip (a get, a stream, an update, a batch commit) is    *)
(* one atomic step; the steps of concurrent requests interleave freely.    *)
(* submit_vote alone runs its read and write inside a transaction, which   *)
(* the store re-executes when the document was written in between.         *)
(***************************************************************************)
EXTENDS Integers, Sequences, FiniteSets, TLC

(* ---------------------------------------------------------------- bounds *)
NumWorkers == 2      \* concurrent request handlers
NumQuestions == 2    \* size of the question pool a round's question is drawn from
MaxAttempts == 2     \* executions of a transaction body before the store gives up
MaxCalls == 3        \* requests that arrive after the initial state

Workers == 1..NumWorkers
Questions == 1..NumQuestions

(* The authenticated users who can call the service; h1 creates the room. *)
Humans == {"h1", "h2", "h3"}
Host == "h1"

(* ------------------------------------------------------ program constants *)
MaxPlayers == 4      \* join_game: len(players) >= 4 is "full"
MaxRounds == 3       \* tally_votes: current_round >= 3 ends the game
FirstRound == 1      \* start_game: currentRound 1; tally_answers: round 1 has no vote

VARIABLES
    game,       \* the game_rooms document
    timer,      \* the clock against game.roundEndTime: "none", "running", "elapsed"
    pending,    \* the pending_messages sub-collection
    messages,   \* the messages sub-collection
    archive,    \* the game_results collection
    nextId,     \* number of auto-generated message document ids handed out
    nextAi,     \* number of ai_<uuid4> identifiers generated
    loc,        \* each worker's operation, position and local variables
    ret,        \* each worker's last result
    conflict,   \* transactions whose snapshot a later write has invalidated
    triggers,   \* per round: how many submit_vote transactions returned True
    applied,    \* per (round, phase): how many tallies wrote their transition
    calls,      \* requests received since the initial state
    called      \* in the voting scenario: the voters who have made their call

vars == <<game, timer, pending, messages, archive, nextId, nextAi, loc, ret,
          conflict, triggers, applied, calls, called>>

(* ---------------------------------------------------------------- helpers *)
Min(a, b) == IF a < b THEN a ELSE b

Range(s) == {s[i] : i \in DOMAIN s}

RECURSIVE ArrayUnion(_, _)
(* firestore.ArrayUnion: append each element that is not yet in the array *)
ArrayUnion(arr, elems) ==
    IF elems = <<>> THEN arr
    ELSE IF \E i \in DOMAIN arr : arr[i] = Head(elems)
         THEN ArrayUnion(arr, Tail(elems))
         ELSE ArrayUnion(Append(arr, Head(elems)), Tail(elems))

Uids(players) == {players[i].uid : i \in DOMAIN players}

(* next(...) / for ... break: index of the first player with this uid, 0 if none *)
FirstIdx(players, uid) ==
    IF \E i \in DOMAIN players : players[i].uid = uid
    THEN CHOOSE i \in DOMAIN players :
            /\ players[i].uid = uid
            /\ \A j \in 1..(i - 1) : players[j].uid # uid
    ELSE 0

AiUid(k) == "ai" \o ToString(k)

(* A player entry; gameDisplayName 0 is "no name yet", isEliminated FALSE is
   the absent key. *)
Player(uid, imp, name) ==
    [uid |-> uid, isImpostor |-> imp, isEliminated |-> FALSE, gameDisplayName |-> name]

Impostors(players) == SelectSeq(players, LAMBDA p : p.isImpostor)

Shuffles(n) ==
    {f \in [1..n -> 1..n] : \A i, j \in 1..n : i # j => f[i] # f[j]}

NoData == [k |-> "none"]
Idle == [op |-> "idle", pc |-> "idle", uid |-> "", target |-> "", data |-> NoData]

NoResult == [round |-> 0]

(* create_game: the room as created by the host, nothing else yet. *)
NewGame(aiCount) ==
    [hostId |-> Host,
     status |-> "waiting",
     roundPhase |-> "NONE",
     aiCount |-> aiCount,
     ttl |-> "15min",
     currentRound |-> 0,
     rounds |-> <<>>,
     players |-> <<Player(Host, FALSE, 0)>>,
     votes |-> <<>>,
     winner |-> "none",
     lastRoundResult |-> NoResult]

(* A write to the game document invalidates every transaction that has read
   it and not yet committed. *)
Invalidate(w) ==
    conflict' = conflict \cup {v \in Workers \ {w} : loc[v].pc = "txn_commit"}

Finish(w, result) ==
    /\ loc' = [loc EXCEPT ![w] = Idle]
    /\ ret' = [ret EXCEPT ![w] = result]

Goto(w, label, data) ==
    /\ loc' = [loc EXCEPT ![w].pc = label, ![w].data = data]
    /\ UNCHANGED ret

Begin(w, op, label, uid, target, data) ==
    /\ loc[w].op = "idle"
    /\ loc' = [loc EXCEPT ![w] =
                 [op |-> op, pc |-> label, uid |-> uid, target |-> target, data |-> data]]
    /\ ret' = [ret EXCEPT ![w] = "running"]

Reject(w) ==
    /\ loc[w].op = "idle"
    /\ loc' = loc
    /\ ret' = [ret EXCEPT ![w] = "InvalidState"]

Bump(f, key) == [k \in DOMAIN f |-> IF k = key THEN Min(f[k] + 1, 2) ELSE f[k]]

(* A request that names a game document that does not exist: every service
   function raises ValueError("Game not found.") after its get. *)
NotFound(w) ==
    /\ Reject(w)
    /\ UNCHANGED <<game, timer, pending, messages, archive, nextId, nextAi,
                   conflict, triggers, applied>>

(* -------------------------------------------------------------- join_game *)
JoinRead(w, u) ==
    /\ loc[w].op = "idle"
    /\ IF \/ game.status # "waiting"
          \/ Len(game.players) >= MaxPlayers
          \/ u \in Uids(game.players)
       THEN Reject(w)
       ELSE Begin(w, "join", "join_write", u, "", NoData)
    /\ UNCHANGED <<game, timer, pending, messages, archive, nextId, nextAi,
                   conflict, triggers, applied>>

(* game_ref.update({"players": ArrayUnion([new_player])}) *)
JoinUpdate(g, u) ==
    [g EXCEPT !.players = ArrayUnion(@, <<Player(u, FALSE, 0)>>)]

JoinWrite(w) ==
    /\ loc[w].pc = "join_write"
    /\ game' = JoinUpdate(game, loc[w].uid)
    /\ Invalidate(w)
    /\ Finish(w, "ok")
    /\ UNCHANGED <<timer, pending, messages, archive, nextId, nextAi, triggers, applied>>

(* ------------------------------------------------------------- start_game *)
(* the AI players made without their impostor flag *)
ParticipantsUnflagged(players, aiCount, firstAi, perm) ==
    LET humans == [i \in DOMAIN players |-> [players[i] EXCEPT !.isImpostor = FALSE]]
        ais == [k \in 1..aiCount |-> Player(AiUid(firstAi + k), FALSE, 0)]
        all == humans \o ais
        named == [i \in DOMAIN all |-> [all[i] EXCEPT !.gameDisplayName = i]]
    IN [i \in DOMAIN named |-> named[perm[i]]]

(* all_participants: the humans of the snapshot marked non-impostor, ai_count
   fresh AI players, nicknames[i] given in list order (the nicknames are
   pairwise distinct; they are named 1..n here), then shuffled by perm. *)
Participants(players, aiCount, firstAi, perm) ==
    LET humans == [i \in DOMAIN players |-> [players[i] EXCEPT !.isImpostor = FALSE]]
        ais == [k \in 1..aiCount |-> Player(AiUid(firstAi + k), TRUE, 0)]
        all == humans \o ais
        named == [i \in DOMAIN all |-> [all[i] EXCEPT !.gameDisplayName = i]]
    IN [i \in DOMAIN named |-> named[perm[i]]]

StartRead(w, u) ==
    /\ loc[w].op = "idle"
    /\ IF u # game.hostId \/ game.status # "waiting"
       THEN /\ Reject(w)
            /\ UNCHANGED nextAi
       ELSE /\ \E perm \in Shuffles(Len(game.players) + game.aiCount) :
                 Begin(w, "start", "start_write", u, "",
                       [players |-> Participants(game.players, game.aiCount, nextAi, perm)])
            /\ nextAi' = nextAi + game.aiCount
    /\ UNCHANGED <<game, timer, pending, messages, archive, nextId,
                   conflict, triggers, applied>>

(* the update start_game writes *)
StartUpdate(g, players, q) ==
    [g EXCEPT !.players = players,
              !.status = "in_progress",
              !.roundPhase = "ANSWER_SUBMISSION",
              !.currentRound = FirstRound,
              !.ttl = "30min",
              !.rounds = <<[round |-> FirstRound, question |-> q]>>]

StartWrite(w) ==
    /\ loc[w].pc = "start_write"
    /\ \E q \in Questions : game' = StartUpdate(game, loc[w].data.players, q)
    /\ timer' = "running"
    /\ Invalidate(w)
    /\ LET ai == Impostors(loc[w].data.players)
       IN IF ai # <<>>
          THEN Goto(w, "enq_read", [ai |-> ai, round |-> FirstRound, after |-> "done"])
          ELSE Finish(w, "ok")
    /\ UNCHANGED <<pending, messages, archive, nextId, nextAi, triggers, applied>>

(* ---------------------------------------------------- _enqueue_ai_answers *)
(* After the call returns, the caller goes on: start_game and tally_answers
   are finished, tally_votes still has its update to write. *)
Resume(w) ==
    IF loc[w].data.after = "tv_write"
    THEN Goto(w, "tv_write", loc[w].data)
    ELSE Finish(w, "ok")

(* game_ref.get(): the round's question must already be in rounds, otherwise
   the function logs an error and returns without writing anything. *)
EnqueueRead(w) ==
    /\ loc[w].pc = "enq_read"
    /\ IF loc[w].data.round - 1 < Len(game.rounds)
       THEN Goto(w, "enq_commit", loc[w].data)
       ELSE Resume(w)
    /\ UNCHANGED <<game, timer, pending, messages, archive, nextId, nextAi,
                   conflict, triggers, applied>>

(* an exception of generate_ai_response leaving the loop: the player whose
   generation failed and the players after it get no document *)
AiDocsUntilFailure(ai, round, first, failed) ==
    {[id |-> first + i, authorId |-> ai[i].uid, roundNumber |-> round,
      content |-> "generated"] :
        i \in {j \in DOMAIN ai : \A k \in failed : j < k}}

(* The documents the loop puts into the batch, one per AI player of the
   list; failed are the positions of the players for whom
   generate_ai_response raised: their content is the placeholder text. *)
AiDocs(ai, round, first, failed) ==
    {[id |-> first + i, authorId |-> ai[i].uid, roundNumber |-> round,
      content |-> IF i \in failed THEN "fallback" ELSE "generated"] : i \in DOMAIN ai}

(* The loop over the AI players and batch.commit(): failed are the
   positions of the players for whom generate_ai_response raised. *)
EnqueueWith(w, failed) ==
    /\ loc[w].pc = "enq_commit"
    /\ pending' = pending \cup AiDocs(loc[w].data.ai, loc[w].data.round, nextId, failed)
    /\ nextId' = nextId + Len(loc[w].data.ai)
    /\ Resume(w)
    /\ UNCHANGED <<game, timer, messages, archive, nextAi, conflict, triggers, applied>>

(* the AI service answers for every player *)
EnqueueCommit(w) == EnqueueWith(w, {})

(* the AI service fails for one player or more *)
EnqueueFallback(w) ==
    /\ loc[w].pc = "enq_commit"
    /\ \E failed \in (SUBSET DOMAIN loc[w].data.ai) \ {{}} : EnqueueWith(w, failed)

(* ---------------------------------------------------------- submit_answer *)
AnswerRead(w, u) ==
    /\ loc[w].op = "idle"
    /\ IF \/ game.status # "in_progress"
          \/ game.roundPhase # "ANSWER_SUBMISSION"
          \/ u \notin Uids(game.players)
       THEN Reject(w)
       ELSE Begin(w, "answer", "ans_query", u, "", [round |-> game.currentRound])
    /\ UNCHANGED <<game, timer, pending, messages, archive, nextId, nextAi,
                   conflict, triggers, applied>>

(* the duplicate check looks at pending_messages only *)
AnswerQuery(w) ==
    /\ loc[w].pc = "ans_query"
    /\ IF \E d \in pending :
            d.authorId = loc[w].uid /\ d.roundNumber = loc[w].data.round
       THEN Finish(w, "InvalidState")
       ELSE Goto(w, "ans_add", loc[w].data)
    /\ UNCHANGED <<game, timer, pending, messages, archive, nextId, nextAi,
                   conflict, triggers, applied>>

AnswerAdd(w) ==
    /\ loc[w].pc = "ans_add"
    /\ pending' = pending \cup
          {[id |-> nextId + 1, authorId |-> loc[w].uid, roundNumber |-> loc[w].data.round,
            content |-> "answer"]}
    /\ nextId' = nextId + 1
    /\ Finish(w, "ok")
    /\ UNCHANGED <<game, timer, messages, archive, nextAi, conflict, triggers, applied>>

(* ---------------------------------------------------------- tally_answers *)
(* the phase check raising like the status check *)
TallyAnswersReadStrict(w) ==
    /\ loc[w].op = "idle"
    /\ IF game.status # "in_progress" \/ game.roundPhase # "ANSWER_SUBMISSION"
       THEN Reject(w)
       ELSE IF timer = "running"
       THEN Reject(w)
       ELSE Begin(w, "tallyA", "ta_stream", "", "",
                  [round |-> game.currentRound, ai |-> Impostors(game.players)])
    /\ UNCHANGED <<game, timer, pending, messages, archive, nextId, nextAi,
                   conflict, triggers, applied>>

TallyAnswersRead(w) ==
    /\ loc[w].op = "idle"
    /\ IF game.status # "in_progress"
       THEN Reject(w)
       ELSE IF game.roundPhase # "ANSWER_SUBMISSION"
       THEN /\ loc' = loc
            /\ ret' = [ret EXCEPT ![w] = "noop"]
       ELSE IF timer = "running"
       THEN Reject(w)
       ELSE Begin(w, "tallyA", "ta_stream", "", "",
                  [round |-> game.currentRound, ai |-> Impostors(game.players)])
    /\ UNCHANGED <<game, timer, pending, messages, archive, nextId, nextAi,
                   conflict, triggers, applied>>

(* list(pending_messages_ref.stream()) *)
TallyAnswersStream(w) ==
    /\ loc[w].pc = "ta_stream"
    /\ Goto(w, IF pending # {} THEN "ta_batch" ELSE "ta_write",
            [round |-> loc[w].data.round, ai |-> loc[w].data.ai, docs |-> pending])
    /\ UNCHANGED <<game, timer, pending, messages, archive, nextId, nextAi,
                   conflict, triggers, applied>>

(* batch.commit(): each streamed document is set under the same id in
   messages and deleted from pending_messages *)
TallyAnswersBatch(w) ==
    /\ loc[w].pc = "ta_batch"
    /\ messages' = messages \cup loc[w].data.docs
    /\ pending' = pending \ loc[w].data.docs
    /\ Goto(w, "ta_write", loc[w].data)
    /\ UNCHANGED <<game, timer, archive, nextId, nextAi, conflict, triggers, applied>>

(* every answer round followed by its vote, the first one too *)
TallyAnswersUpdateToVote(g, r, q) == [g EXCEPT !.roundPhase = "VOTING"]

(* the update tally_answers writes, r being the currentRound it read: round 1
   is followed by round 2 without a vote, a later round by its vote *)
TallyAnswersUpdate(g, r, q) ==
    IF r = FirstRound
    THEN [g EXCEPT !.roundPhase = "ANSWER_SUBMISSION",
                   !.currentRound = r + 1,
                   !.rounds = ArrayUnion(@, <<[round |-> r + 1, question |-> q]>>)]
    ELSE [g EXCEPT !.roundPhase = "VOTING"]

TallyAnswersWrite(w) ==
    /\ loc[w].pc = "ta_write"
    /\ LET r == loc[w].data.round
           ai == loc[w].data.ai
       IN IF r = FirstRound
          THEN /\ \E q \in Questions : game' = TallyAnswersUpdate(game, r, q)
               /\ timer' = "running"
               /\ IF ai # <<>>
                  THEN Goto(w, "enq_read", [ai |-> ai, round |-> r + 1, after |-> "done"])
                  ELSE Finish(w, "ok")
          ELSE /\ game' = TallyAnswersUpdate(game, r, 1)
               /\ timer' = "none"
               /\ Finish(w, "ok")
    /\ applied' = Bump(applied, <<loc[w].data.round, "ANSWER_SUBMISSION">>)
    /\ Invalidate(w)
    /\ UNCHANGED <<pending, messages, archive, nextId, nextAi, triggers>>

(* ------------------------------------------------------------ tally_votes *)
VotesOfRound(votes, r) == SelectSeq(votes, LAMBDA v : v.round = r)

Targets(vs) == {vs[i].targetId : i \in DOMAIN vs}

(* Counter(v["targetId"] for v in votes_this_round)[t] *)
VoteCount(vs, t) == Cardinality({i \in DOMAIN vs : vs[i].targetId = t})

FirstVoteFor(vs, t) == CHOOSE i \in DOMAIN vs :
    vs[i].targetId = t /\ \A j \in 1..(i - 1) : vs[j].targetId # t

(* Counter.most_common(): the targets by decreasing count, equal counts in
   the order the targets were first counted *)
MostCommon(vs) ==
    LET T == Targets(vs)
        Before(u, t) ==
            \/ VoteCount(vs, u) > VoteCount(vs, t)
            \/ VoteCount(vs, u) = VoteCount(vs, t) /\ FirstVoteFor(vs, u) < FirstVoteFor(vs, t)
    IN [k \in 1..Cardinality(T) |->
          LET t == CHOOSE t \in T : Cardinality({u \in T : Before(u, t)}) = k - 1
          IN [target |-> t, count |-> VoteCount(vs, t)]]

(* most_common(2) *)
MostTwo(vs) == SubSeq(MostCommon(vs), 1, Min(2, Len(MostCommon(vs))))

(* a tie for first place taken as a win of the target counted first *)
StrictOrTied(most) ==
    Len(most) = 1 \/ (Len(most) > 1 /\ most[1].count >= most[2].count)

(* most_common[0][1] > most_common[1][1], or a single target *)
Strict(most) ==
    Len(most) = 1 \/ (Len(most) > 1 /\ most[1].count > most[2].count)

(* the uid tally_votes decides to eliminate, "" for nobody *)
PlayerToEliminate(vs) ==
    IF vs # <<>> /\ Strict(MostTwo(vs)) THEN MostTwo(vs)[1].target ELSE ""

Active(players) == SelectSeq(players, LAMBDA p : ~p.isEliminated)

(* the two checks in the other order: the round limit first *)
WinnerOfRoundFirst(players, round) ==
    IF round >= MaxRounds THEN "ai"
    ELSE IF Impostors(Active(players)) = <<>> THEN "humans"
    ELSE "none"

(* the end of the game as tally_votes decides it from the players after the
   elimination and the round it read *)
WinnerOf(players, round) ==
    IF Impostors(Active(players)) = <<>> THEN "humans"
    ELSE IF round >= MaxRounds THEN "ai"
    ELSE "none"

EndCondition(winner) ==
    IF winner = "humans" THEN "all_impostors_eliminated"
    ELSE IF winner = "ai" THEN "max_rounds_reached"
    ELSE "none"

(* for player in players: if player["uid"] == uid: ... break *)
EliminatedIdx(players, target) ==
    IF target = "" THEN 0 ELSE FirstIdx(players, target)

MarkEliminated(players, idx) ==
    IF idx = 0 THEN players ELSE [players EXCEPT ![idx].isEliminated = TRUE]

RoundResult(g, vs, idx, winner) ==
    [round |-> g.currentRound,
     totalVotes |-> Len(vs),
     voteCounts |-> [t \in Targets(vs) |-> VoteCount(vs, t)],
     eliminatedPlayerId |-> IF idx = 0 THEN "" ELSE g.players[idx].uid,
     eliminatedRole |-> IF idx = 0 THEN "none"
                        ELSE IF g.players[idx].isImpostor THEN "AI" ELSE "Human",
     gameEnded |-> winner # "none",
     endCondition |-> EndCondition(winner)]

Decision(g, vs, idx, players, winner) ==
    [round |-> g.currentRound,
     players |-> players,
     winner |-> winner,
     snapshot |-> [votes |-> g.votes, players |-> g.players,
                   lastRoundResult |-> g.lastRoundResult],
     result |-> RoundResult(g, vs, idx, winner)]

DecideFor(g, vs, idx, players) ==
    Decision(g, vs, idx, players, WinnerOf(players, g.currentRound))

DecideAt(g, vs, idx) == DecideFor(g, vs, idx, MarkEliminated(g.players, idx))

DecideOn(g, vs) == DecideAt(g, vs, EliminatedIdx(g.players, PlayerToEliminate(vs)))

(* Everything tally_votes computes from the snapshot g before it writes. *)
TallyDecision(g) == DecideOn(g, VotesOfRound(g.votes, g.currentRound))

TallyVotesPlan(d, enter(_, _)) ==
    IF d.winner = "none" /\ Impostors(d.players) # <<>>
    THEN enter("enq_read", [tv |-> d, ai |-> Impostors(d.players), round |-> d.round + 1,
                            after |-> "tv_write"])
    ELSE enter("tv_write", [tv |-> d])

(* The read and the computation; a running game goes on to enqueue the AI
   answers of the next round before anything is written. *)
TallyVotesBody(w, enter(_, _)) ==
    IF game.status # "in_progress"
    THEN Finish(w, "InvalidState")
    ELSE IF game.roundPhase # "VOTING"
    THEN Finish(w, IF loc[w].op = "idle" THEN "noop" ELSE "ok")
    ELSE TallyVotesPlan(TallyDecision(game), enter)

(* tally_votes called through its endpoint *)
TallyVotesRead(w) ==
    /\ loc[w].op = "idle"
    /\ TallyVotesBody(w, LAMBDA label, data : Begin(w, "tallyV", label, "", "", data))
    /\ UNCHANGED <<game, timer, pending, messages, archive, nextId, nextAi,
                   conflict, triggers, applied>>

(* tally_votes called by submit_vote after its transaction returned True *)
TallyVotesTriggered(w) ==
    /\ loc[w].pc = "tv_read"
    /\ TallyVotesBody(w, LAMBDA label, data : Goto(w, label, data))
    /\ UNCHANGED <<game, timer, pending, messages, archive, nextId, nextAi,
                   conflict, triggers, applied>>

(* a vote that does not end the game is left open *)
TallyVotesUpdateOpen(g, d, q) ==
    IF d.winner # "none"
    THEN [g EXCEPT !.players = d.players,
                   !.status = "finished",
                   !.roundPhase = "GAME_ENDED",
                   !.winner = d.winner,
                   !.ttl = "deleted",
                   !.lastRoundResult = d.result]
    ELSE [g EXCEPT !.players = d.players,
                   !.lastRoundResult = d.result]

(* update_payload applied to the document as it is when the update arrives *)
TallyVotesUpdate(g, d, q) ==
    IF d.winner # "none"
    THEN [g EXCEPT !.players = d.players,
                   !.status = "finished",
                   !.roundPhase = "GAME_ENDED",
                   !.winner = d.winner,
                   !.ttl = "deleted",
                   !.lastRoundResult = d.result]
    ELSE [g EXCEPT !.players = d.players,
                   !.currentRound = d.round + 1,
                   !.roundPhase = "ANSWER_SUBMISSION",
                   !.rounds = ArrayUnion(@, <<[round |-> d.round + 1, question |-> q]>>),
                   !.lastRoundResult = d.result]

(* GameResultLastRound(...) of last_round_result_data: the four analytics
   fields, each with the default .get gives it when the key is missing *)
LastRound(r) ==
    IF r = NoResult
    THEN [eliminatedPlayer |-> "", eliminatedRole |-> "none",
          endCondition |-> "max_rounds_reached", voteCounts |-> [t \in {} |-> 0]]
    ELSE [eliminatedPlayer |-> r.eliminatedPlayerId,
          eliminatedRole |-> r.eliminatedRole,
          endCondition |-> IF r.endCondition = "none" THEN "max_rounds_reached"
                           ELSE r.endCondition,
          voteCounts |-> r.voteCounts]

(* what _archive_game_result adds to game_results: game_data is the snapshot
   tally_votes read, with the elimination marked in its players *)
GameResult(d, msgs) ==
    [winner |-> d.winner,
     totalRounds |-> d.round,
     players |-> d.players,
     votes |-> d.snapshot.votes,
     answers |-> msgs,
     lastRoundResult |-> LastRound(d.snapshot.lastRoundResult)]

(* game_ref.update(update_payload) *)
TallyVotesWrite(w) ==
    /\ loc[w].pc = "tv_write"
    /\ LET d == loc[w].data.tv
       IN IF d.winner # "none"
          THEN /\ game' = TallyVotesUpdate(game, d, 1)
               /\ UNCHANGED timer
               /\ Goto(w, "archive", loc[w].data)
          ELSE /\ \E q \in Questions : game' = TallyVotesUpdate(game, d, q)
               /\ timer' = "running"
               /\ Finish(w, "ok")
    /\ applied' = Bump(applied, <<loc[w].data.tv.round, "VOTING">>)
    /\ Invalidate(w)
    /\ UNCHANGED <<pending, messages, archive, nextId, nextAi, triggers>>

(* _archive_game_result(game_ref, game_data, winner) *)
ArchiveGameResult(w) ==
    /\ loc[w].pc = "archive"
    /\ archive' = Append(archive, GameResult(loc[w].data.tv, messages))
    /\ Finish(w, "ok")
    /\ UNCHANGED <<game, timer, pending, messages, nextId, nextAi, conflict,
                   triggers, applied>>

(* ------------------------------------------------------------ submit_vote *)
RequiredVotes(players) ==
    Cardinality({i \in DOMAIN players :
                    ~players[i].isEliminated /\ ~players[i].isImpostor})

(* the comparison taken strictly: the vote that completes the round does not
   trigger *)
ShouldTallyStrictly(g) ==
    /\ RequiredVotes(g.players) > 0
    /\ Len(VotesOfRound(g.votes, g.currentRound)) + 1 > RequiredVotes(g.players)

(* the value _submit_vote_transaction returns for the snapshot g *)
ShouldTally(g) ==
    /\ RequiredVotes(g.players) > 0
    /\ Len(VotesOfRound(g.votes, g.currentRound)) + 1 >= RequiredVotes(g.players)

(* the checks without the one for a vote already cast in this round *)
VoteRejectedUnlessCast(g, v, t) ==
    \/ g.status # "in_progress"
    \/ g.roundPhase # "VOTING"
    \/ v = t
    \/ v \notin Uids(g.players)
    \/ t \notin Uids(g.players)

(* the checks with one more: the target must still be in the game *)
VoteRejectedTargetOut(g, v, t) ==
    \/ g.status # "in_progress"
    \/ g.roundPhase # "VOTING"
    \/ v = t
    \/ v \notin Uids(g.players)
    \/ t \notin Uids(g.players)
    \/ \E i \in DOMAIN g.players : g.players[i].uid = t /\ g.players[i].isEliminated
    \/ \E i \in DOMAIN g.votes :
          g.votes[i].voterId = v /\ g.votes[i].round = g.currentRound

(* the checks of the transaction body that raise ValueError *)
VoteRejected(g, v, t) ==
    \/ g.status # "in_progress"
    \/ g.roundPhase # "VOTING"
    \/ v = t
    \/ v \notin Uids(g.players)
    \/ t \notin Uids(g.players)
    \/ \E i \in DOMAIN g.votes :
          g.votes[i].voterId = v /\ g.votes[i].round = g.currentRound

(* One execution of the transaction body up to transaction.update: the read
   and the validation. *)
VoteBody(w, v, t, attempt, enter(_, _), fail(_)) ==
    IF VoteRejected(game, v, t)
    THEN fail("InvalidState")
    ELSE enter("txn_commit",
               [vote |-> [voterId |-> v, targetId |-> t, round |-> game.currentRound],
                tally |-> ShouldTally(game),
                attempt |-> attempt])

(* transaction.update(game_ref, {"votes": ArrayUnion([new_vote])}) *)
VoteUpdate(g, vote) == [g EXCEPT !.votes = ArrayUnion(@, <<vote>>)]

VoteUids == Humans \cup {AiUid(k) : k \in 1..2}

SubmitVoteRead(w, v, t) ==
    /\ loc[w].op = "idle"
    /\ VoteBody(w, v, t, 1,
                LAMBDA label, data : Begin(w, "vote", label, v, t, data),
                LAMBDA e : Reject(w))
    /\ conflict' = conflict \ {w}
    /\ UNCHANGED <<game, timer, pending, messages, archive, nextId, nextAi,
                   triggers, applied>>

(* the store runs the body again on the document as it is now *)
SubmitVoteRetry(w) ==
    /\ loc[w].pc = "txn_retry"
    /\ VoteBody(w, loc[w].uid, loc[w].target, loc[w].data.attempt + 1,
                LAMBDA label, data : Goto(w, label, data),
                LAMBDA e : Finish(w, e))
    /\ conflict' = conflict \ {w}
    /\ UNCHANGED <<game, timer, pending, messages, archive, nextId, nextAi,
                   triggers, applied>>

(* The commit: it goes through if the document was not written since the
   read; otherwise the body is run again, MaxAttempts times at most, and
   then the conflict is raised (Aborted), which submit_vote turns into a
   ValueError. *)
SubmitVoteCommit(w) ==
    /\ loc[w].pc = "txn_commit"
    /\ IF w \notin conflict
       THEN /\ game' = VoteUpdate(game, loc[w].data.vote)
            /\ Invalidate(w)
            /\ IF loc[w].data.tally
               THEN /\ Goto(w, "tv_read", NoData)
                    /\ triggers' = Bump(triggers, loc[w].data.vote.round)
               ELSE /\ Finish(w, "ok")
                    /\ UNCHANGED triggers
       ELSE /\ IF loc[w].data.attempt < MaxAttempts
               THEN Goto(w, "txn_retry", loc[w].data)
               ELSE Finish(w, "Conflict")
            /\ conflict' = conflict \ {w}
            /\ UNCHANGED <<game, triggers>>
    /\ UNCHANGED <<timer, pending, messages, archive, nextId, nextAi, applied>>

(* --------------------------------------------------- the caller's response *)
(* What submit_vote raises for an outcome of the transaction: a validation
   failure is a ValueError with its own message; Aborted/FailedPrecondition
   after the last attempt is caught and raised again as a ValueError that
   asks to try again. *)
Raised(outcome) ==
    IF outcome = "InvalidState" THEN [type |-> "ValueError", message |-> "validation"]
    ELSE IF outcome = "Conflict" THEN [type |-> "ValueError", message |-> "try again"]
    ELSE [type |-> "none", message |-> ""]

(* vote_endpoint: a ValueError becomes 400 Bad Request with the message as
   detail, no exception 204 No Content. *)
VoteResponse(outcome) ==
    IF Raised(outcome).type = "ValueError"
    THEN [status |-> 400, detail |-> Raised(outcome).message]
    ELSE [status |-> 204, detail |-> ""]

(* ------------------------------------------------------------------ clock *)
(* now passes game.roundEndTime *)
Tick ==
    /\ timer = "running"
    /\ timer' = "elapsed"
    /\ UNCHANGED <<game, pending, messages, archive, nextId, nextAi, loc, ret,
                   conflict, triggers, applied>>


(* ------------------------------------------------------------------- init *)
(* The initial states are the room as create_game leaves it and the states a
   game passes through when its requests arrive one after the other, each
   computed with the updates above: the start of each answer round and of
   each vote.  The requests of a behaviour then arrive concurrently. *)
Store(g) ==
    [game |-> g, timer |-> "none", pending |-> {}, messages |-> {}, archive |-> <<>>,
     nextId |-> 0, nextAi |-> 0,
     triggers |-> [r \in 0..MaxRounds |-> 0],
     applied |-> [k \in (0..MaxRounds) \X {"ANSWER_SUBMISSION", "VOTING"} |-> 0]]

Identity(n) == [i \in 1..n |-> i]

(* _enqueue_ai_answers run to its end *)
RunEnqueue(s, ai, round) ==
    IF ai # <<>> /\ round - 1 < Len(s.game.rounds)
    THEN [s EXCEPT !.pending = s.pending \cup AiDocs(ai, round, s.nextId, {}),
                   !.nextId = s.nextId + Len(ai)]
    ELSE s

RunJoin(s, u) == [s EXCEPT !.game = JoinUpdate(s.game, u)]

Started(s, q, players) ==
    RunEnqueue([s EXCEPT !.game = StartUpdate(s.game, players, q),
                         !.timer = "running",
                         !.nextAi = s.nextAi + s.game.aiCount],
               Impostors(players), FirstRound)

RunStart(s, q) ==
    Started(s, q, Participants(s.game.players, s.game.aiCount, s.nextAi,
                               Identity(Len(s.game.players) + s.game.aiCount)))

Revealed(s, q) ==
    [s EXCEPT !.messages = s.messages \cup s.pending,
              !.pending = {},
              !.game = TallyAnswersUpdate(s.game, s.game.currentRound, q),
              !.timer = IF s.game.currentRound = FirstRound THEN "running" ELSE "none",
              !.applied = Bump(s.applied, <<s.game.currentRound, "ANSWER_SUBMISSION">>)]

(* tally_answers called after the deadline *)
RunTallyAnswers(s, q) ==
    IF s.game.currentRound = FirstRound
    THEN RunEnqueue(Revealed(s, q), Impostors(s.game.players), FirstRound + 1)
    ELSE Revealed(s, q)

Written(s, q, d) ==
    [s EXCEPT !.game = TallyVotesUpdate(s.game, d, q),
              !.timer = IF d.winner = "none" THEN "running" ELSE s.timer,
              !.applied = Bump(s.applied, <<d.round, "VOTING">>)]

Archived(s, d) == [s EXCEPT !.archive = Append(s.archive, GameResult(d, s.messages))]

Decided(s, q, d) ==
    IF d.winner = "none"
    THEN Written(RunEnqueue(s, Impostors(d.players), d.round + 1), q, d)
    ELSE Archived(Written(s, q, d), d)

(* tally_votes called in VOTING *)
RunTallyVotes(s, q) == Decided(s, q, TallyDecision(s.game))

Voted(s, v, t) ==
    [s EXCEPT !.game = VoteUpdate(s.game, [voterId |-> v, targetId |-> t,
                                          round |-> s.game.currentRound])]

Triggered(s, r) == [s EXCEPT !.triggers = Bump(s.triggers, r)]

(* submit_vote by a voter the validation accepts *)
RunVote(s, v, t) ==
    IF ShouldTally(s.game)
    THEN RunTallyVotes(Triggered(Voted(s, v, t), s.game.currentRound), 1)
    ELSE Voted(s, v, t)

Rooms ==
    {Store(NewGame(1)),
     RunJoin(Store(NewGame(1)), "h2"),
     RunJoin(RunJoin(Store(NewGame(1)), "h2"), "h3"),
     RunJoin(Store(NewGame(2)), "h2")}

Round1 == {RunStart(s, 1) : s \in Rooms \ {Store(NewGame(1))}}
Round2 == {RunTallyAnswers(s, 1) : s \in Round1}
Voting2 == {RunTallyAnswers(s, 1) : s \in Round2}
(* round 2 closed by tally_votes with no vote cast, with the single vote of
   h1 against h2, or by the votes of all the humans against the first AI *)
Round3 ==
    {RunTallyVotes(s, 1) : s \in Voting2}
    \cup {RunTallyVotes(RunVote(s, "h1", "h2"), 1) : s \in Voting2}
    \cup {s \in {RunVote(RunVote(t, "h1", "ai1"), "h2", "ai1") : t \in Voting2} :
             s.game.roundPhase = "ANSWER_SUBMISSION"}
Voting3 == {RunTallyAnswers(s, 1) : s \in Round3}

Starts == Rooms \cup Round1 \cup Round2 \cup Voting2 \cup Round3 \cup Voting3

InitFrom(S) ==
    /\ \E s \in S :
         /\ game = s.game
         /\ timer = s.timer
         /\ pending = s.pending
         /\ messages = s.messages
         /\ archive = s.archive
         /\ nextId = s.nextId
         /\ nextAi = s.nextAi
         /\ triggers = s.triggers
         /\ applied = s.applied
    /\ loc = [w \in Workers |-> Idle]
    /\ ret = [w \in Workers |-> "none"]
    /\ conflict = {}
    /\ calls = 0
    /\ called = {}

Init == InitFrom(Starts)

(* ------------------------------------------------------------------- spec *)
(* a request arrives and runs up to its first read of the document *)
Call(w) ==
    \/ \E u \in Humans : JoinRead(w, u)
    \/ \E u \in Humans : StartRead(w, u)
    \/ \E u \in Humans : AnswerRead(w, u)
    \/ TallyAnswersRead(w)
    \/ TallyVotesRead(w)
    \/ \E v \in Humans, t \in VoteUids : SubmitVoteRead(w, v, t)
    \/ NotFound(w)

(* a request in progress makes its next round trip to the store *)
Step(w) ==
    \/ JoinWrite(w)
    \/ StartWrite(w)
    \/ EnqueueRead(w)
    \/ EnqueueCommit(w)
    \/ AnswerQuery(w)
    \/ AnswerAdd(w)
    \/ TallyAnswersStream(w)
    \/ TallyAnswersBatch(w)
    \/ TallyAnswersWrite(w)
    \/ TallyVotesTriggered(w)
    \/ TallyVotesWrite(w)
    \/ ArchiveGameResult(w)
    \/ SubmitVoteRetry(w)
    \/ SubmitVoteCommit(w)

(* The workers are interchangeable: a request is taken by the first idle one. *)
Free(w) == loc[w].op = "idle" /\ \A v \in 1..(w - 1) : loc[v].op # "idle"

Next ==
    \/ \E w \in Workers :
         /\ calls < MaxCalls
         /\ Free(w)
         /\ Call(w)
         /\ calls' = calls + 1
         /\ UNCHANGED called
    \/ \E w \in Workers : Step(w) /\ UNCHANGED <<calls, called>>
    \/ Tick /\ UNCHANGED <<calls, called>>

Spec == Init /\ [][Next]_vars

(* ------------------------------------------------ the tallies on their own *)
(* Only the two tally endpoints are called (by the clients' timers or a
   poller) while the clock runs; nobody answers or votes. *)
TallyCall(w) ==
    \/ TallyAnswersRead(w)
    \/ TallyVotesRead(w)

TallyStep(w) ==
    \/ TallyAnswersStream(w)
    \/ TallyAnswersBatch(w)
    \/ TallyAnswersWrite(w)
    \/ EnqueueRead(w)
    \/ EnqueueCommit(w)
    \/ TallyVotesWrite(w)
    \/ ArchiveGameResult(w)

NextTally ==
    \/ \E w \in Workers :
         /\ calls < MaxCalls + 1
         /\ Free(w)
         /\ TallyCall(w)
         /\ calls' = calls + 1
         /\ UNCHANGED called
    \/ \E w \in Workers : TallyStep(w) /\ UNCHANGED <<calls, called>>
    \/ Tick /\ UNCHANGED <<calls, called>>

SpecTally == InitFrom(Round1 \cup Round2 \cup Voting2 \cup Round3 \cup Voting3)
             /\ [][NextTally]_vars

(* ------------------------------------------------------ the vote scenario *)
(* A vote is open and exactly the players whose votes are required (not
   eliminated, not impostors) each call submit_vote once, with a target the
   validation accepts; nothing else is called. *)
Required(players) ==
    {players[i].uid : i \in {j \in DOMAIN players :
                               ~players[j].isEliminated /\ ~players[j].isImpostor}}

VoteOnce(w, v, t) ==
    /\ v \in Required(game.players) \ called
    /\ t \in Uids(game.players) \ {v}
    /\ SubmitVoteRead(w, v, t)
    /\ called' = called \cup {v}
    /\ UNCHANGED calls

VoteStep(w) ==
    \/ SubmitVoteRetry(w)
    \/ SubmitVoteCommit(w)
    \/ TallyVotesTriggered(w)
    \/ EnqueueRead(w)
    \/ TallyVotesWrite(w)
    \/ ArchiveGameResult(w)

NextVote ==
    \/ \E w \in Workers, v \in Humans, t \in VoteUids : Free(w) /\ VoteOnce(w, v, t)
    \/ \E w \in Workers : VoteStep(w) /\ UNCHANGED <<calls, called>>

SpecVote == InitFrom(Voting2 \cup Voting3) /\ [][NextVote]_vars

(* ------------------------------------------------ one request at a time *)
(* The same requests as in Spec, each arriving when the one before has
   returned. *)
NextSerial ==
    \/ \E w \in Workers :
         /\ calls < MaxCalls + 1
         /\ \A v \in Workers : loc[v].op = "idle"
         /\ Free(w)
         /\ Call(w)
         /\ calls' = calls + 1
         /\ UNCHANGED called
    \/ \E w \in Workers : Step(w) /\ UNCHANGED <<calls, called>>
    \/ Tick /\ UNCHANGED <<calls, called>>

SpecSerial == Init /\ [][NextSerial]_vars

(* ------------------------------------------------------ the waiting room *)
(* Two more users, so that a room can fill up: any of the five users may
   call join and start on a room that has not started. *)
Guests == {"h4", "h5"}

LobbyCall(w) ==
    \/ \E u \in Humans \cup Guests : JoinRead(w, u)
    \/ \E u \in Humans \cup Guests : StartRead(w, u)

LobbyStep(w) ==
    \/ JoinWrite(w)
    \/ StartWrite(w)
    \/ EnqueueRead(w)
    \/ EnqueueCommit(w)

NextLobby ==
    \/ \E w \in Workers :
         /\ calls < MaxCalls
         /\ Free(w)
         /\ LobbyCall(w)
         /\ calls' = calls + 1
         /\ UNCHANGED called
    \/ \E w \in Workers : LobbyStep(w) /\ UNCHANGED <<calls, called>>

SpecLobby == InitFrom(Rooms) /\ [][NextLobby]_vars

(* the same, one request at a time *)
NextLobbySerial ==
    \/ \E w \in Workers :
         /\ calls < MaxCalls
         /\ \A v \in Workers : loc[v].op = "idle"
         /\ Free(w)
         /\ LobbyCall(w)
         /\ calls' = calls + 1
         /\ UNCHANGED called
    \/ \E w \in Workers : LobbyStep(w) /\ UNCHANGED <<calls, called>>

SpecLobbySerial == InitFrom(Rooms) /\ [][NextLobbySerial]_vars

(* ------------------------------------------------- the two-player game *)
(* One game played through by the host h1 and the player h2 against one AI:
   the requests arrive one after the other, each when the one before has
   returned and each tally after its deadline; the two votes of the last
   round arrive together.  calls is the number of requests made so far. *)
ScenarioRequest(w) ==
    \/ calls = 0 /\ JoinRead(w, "h2")
    \/ calls = 1 /\ StartRead(w, Host)
    \/ calls = 2 /\ AnswerRead(w, Host)
    \/ calls = 3 /\ timer = "elapsed" /\ TallyAnswersRead(w)
    \/ calls = 4 /\ AnswerRead(w, "h2")
    \/ calls = 5 /\ timer = "elapsed" /\ TallyAnswersRead(w)
    \/ calls = 6 /\ AnswerRead(w, "h2")

ScenarioVote(w, v) ==
    /\ calls \in {7, 8}
    /\ v \notin called
    /\ SubmitVoteRead(w, v, AiUid(1))
    /\ called' = called \cup {v}
    /\ calls' = calls + 1

ScenarioStep(w) ==
    \/ JoinWrite(w)
    \/ StartWrite(w)
    \/ EnqueueRead(w)
    \/ EnqueueCommit(w)
    \/ AnswerQuery(w)
    \/ AnswerAdd(w)
    \/ TallyAnswersStream(w)
    \/ TallyAnswersBatch(w)
    \/ TallyAnswersWrite(w)
    \/ SubmitVoteRetry(w)
    \/ SubmitVoteCommit(w)
    \/ TallyVotesTriggered(w)
    \/ TallyVotesWrite(w)
    \/ ArchiveGameResult(w)

NextScenario ==
    \/ \E w \in Workers :
         /\ \A v \in Workers : loc[v].op = "idle"
         /\ Free(w)
         /\ ScenarioRequest(w)
         /\ calls' = calls + 1
         /\ UNCHANGED called
    \/ \E w \in Workers, v \in {Host, "h2"} : Free(w) /\ ScenarioVote(w, v)
    \/ \E w \in Workers : ScenarioStep(w) /\ UNCHANGED <<calls, called>>
    \/ Tick /\ UNCHANGED <<calls, called>>

SpecScenario == InitFrom({Store(NewGame(1))}) /\ [][NextScenario]_vars

(* ------------------------------------------------- the host on their own *)
(* start_game asks for no minimum of players: the host starts the room
   alone against one AI, and only the two tally endpoints are called. *)
SoloRound1 == RunStart(Store(NewGame(1)), 1)
SoloRound2 == RunTallyAnswers(SoloRound1, 1)
SoloVoting2 == RunTallyAnswers(SoloRound2, 1)

SpecSolo == InitFrom({SoloRound1, SoloRound2, SoloVoting2}) /\ [][NextTally]_vars

(* ------------------------------------------------- the AI service failing *)
(* The three operations that schedule AI answers (start_game by the host,
   tally_answers, tally_votes), called while the AI service may fail for any
   player. *)
AiCall(w) ==
    \/ StartRead(w, Host)
    \/ TallyAnswersRead(w)
    \/ TallyVotesRead(w)

AiStep(w) ==
    \/ StartWrite(w)
    \/ EnqueueRead(w)
    \/ EnqueueCommit(w)
    \/ EnqueueFallback(w)
    \/ TallyAnswersStream(w)
    \/ TallyAnswersBatch(w)
    \/ TallyAnswersWrite(w)
    \/ TallyVotesWrite(w)
    \/ ArchiveGameResult(w)

NextAi ==
    \/ \E w \in Workers :
         /\ calls < MaxCalls
         /\ Free(w)
         /\ AiCall(w)
         /\ calls' = calls + 1
         /\ UNCHANGED called
    \/ \E w \in Workers : AiStep(w) /\ UNCHANGED <<calls, called>>
    \/ Tick /\ UNCHANGED <<calls, called>>

SpecAi == InitFrom(Rooms \cup Round1 \cup Voting2 \cup Round3) /\ [][NextAi]_vars

(* ----------------------------------------------------------------- claims *)
VotersOf(r) ==
    {game.votes[i].voterId : i \in {j \in DOMAIN game.votes : game.votes[j].round = r}}

AllIdle == \A w \in Workers : loc[w].op = "idle"

(* the decisions tally_votes calls have computed and not yet finished with *)
Deciding == {w \in Workers : loc[w].pc \in {"tv_write", "archive"}
                             \/ (loc[w].pc \in {"enq_read", "enq_commit"}
                                 /\ loc[w].data.after = "tv_write")}

DecisionOf(w) == loc[w].data.tv

(* C1: in the vote scenario (exactly the required voters call submit_vote,
   once each, with valid targets) the trigger is signalled when the last
   required vote commits and at no other time: while the vote is open the
   round has one trigger if every required voter's vote is in the ledger and
   none otherwise; once the phase has moved on, the round has had exactly
   one trigger and exactly one tally_votes has written its decision. *)
ExactlyOnceTrigger ==
    /\ \A r \in 0..MaxRounds : triggers[r] <= 1 /\ applied[<<r, "VOTING">>] <= 1
    /\ game.roundPhase = "VOTING" =>
          triggers[game.currentRound] =
             (IF Required(game.players) \subseteq VotersOf(game.currentRound) THEN 1 ELSE 0)
    /\ game.roundPhase # "VOTING" =>
          /\ triggers[game.lastRoundResult.round] = 1
          /\ applied[<<game.lastRoundResult.round, "VOTING">>] = 1
    /\ (AllIdle /\ Required(game.players) \subseteq VotersOf(game.currentRound)) =>
          game.roundPhase # "VOTING"

(* three required voters have voted, one of them after a conflict made the
   store run its transaction again, and the round was tallied *)
ExactlyOnceTriggerWitness ==
    /\ game.roundPhase # "VOTING"
    /\ Cardinality(VotersOf(game.lastRoundResult.round)) = 3
    /\ called = VotersOf(game.lastRoundResult.round)
    /\ triggers[game.lastRoundResult.round] = 1
    /\ AllIdle

(* C2: in every round at most one committed submit_vote transaction signals
   "trigger tally", whoever the voters are. *)
AtMostOneTrigger == \A r \in 0..MaxRounds : triggers[r] <= 1

(* C3: every phase transition is written by exactly one tally call: no round
   and phase has its transition written twice. *)
TransitionOnce ==
    \A k \in (0..MaxRounds) \X {"ANSWER_SUBMISSION", "VOTING"} : applied[k] <= 1

(* v has a vote for the current round in the ledger *)
HasVoted(v) ==
    \E i \in DOMAIN game.votes :
        game.votes[i].voterId = v /\ game.votes[i].round = game.currentRound

OneVotePerVoterAndRound ==
    \A i, j \in DOMAIN game.votes :
        (game.votes[i].voterId = game.votes[j].voterId
         /\ game.votes[i].round = game.votes[j].round) => i = j

SecondVoteFails ==
    \A w \in Workers :
        /\ \A v \in Humans, t \in VoteUids :
              (HasVoted(v) /\ SubmitVoteRead(w, v, t)) =>
                  (ret'[w] = "InvalidState" /\ game' = game)
        /\ (HasVoted(loc[w].uid) /\ SubmitVoteRetry(w)) =>
              (ret'[w] = "InvalidState" /\ game' = game)

(* C4: the ledger holds at most one vote per voter and round, and a
   submit_vote by a voter whose vote for the current round is in the ledger
   fails with InvalidState, on the first execution of the transaction body
   as on a re-execution. *)
NoDoubleVote == []OneVotePerVoterAndRound /\ [][SecondVoteFails]_vars

(* two concurrent votes of one voter: the first has committed, the second
   met a conflict and is about to be run again *)
NoDoubleVoteWitness ==
    \E w \in Workers :
        /\ loc[w].pc = "txn_retry"
        /\ HasVoted(loc[w].uid)
        /\ game.roundPhase = "VOTING"

(* C5: there is at most one answer per author and round in the staging area
   and the message log together. *)
NoDoubleAnswer ==
    \A a, b \in pending \cup messages :
        (a.authorId = b.authorId /\ a.roundNumber = b.roundNumber) => a = b

(* the votes of round r for the target t, counted from the ledger *)
CountFor(votes, r, t) ==
    Cardinality({i \in DOMAIN votes : votes[i].round = r /\ votes[i].targetId = t})

SoleTop(votes, r, t) ==
    /\ CountFor(votes, r, t) > 0
    /\ \A i \in DOMAIN votes :
          votes[i].targetId # t => CountFor(votes, r, votes[i].targetId) < CountFor(votes, r, t)

EliminationOf(d) ==
    LET votes == d.snapshot.votes
        before == d.snapshot.players
        out == d.result.eliminatedPlayerId
    IN /\ d.result.totalVotes = Cardinality({i \in DOMAIN votes : votes[i].round = d.round})
       /\ \A t \in DOMAIN d.result.voteCounts :
             d.result.voteCounts[t] = CountFor(votes, d.round, t)
       /\ \A i \in DOMAIN votes :
             votes[i].round = d.round => votes[i].targetId \in DOMAIN d.result.voteCounts
       /\ \A t \in Uids(before) : SoleTop(votes, d.round, t) => out = t
       /\ out # "" => SoleTop(votes, d.round, out)
       /\ Len(d.players) = Len(before)
       /\ \A i \in DOMAIN before :
             d.players[i] = IF before[i].uid = out /\ \A j \in 1..(i - 1) : before[j].uid # out
                            THEN [before[i] EXCEPT !.isEliminated = TRUE]
                            ELSE before[i]

(* C6: a tally counts the votes of the round it read and no others, and it
   eliminates a target exactly if that target has more votes than every
   other target; a tie for first place or no vote eliminates nobody, and the
   players it writes differ from the players it read in the elimination of
   that one player at most. *)
EliminationRule == \A w \in Deciding : EliminationOf(DecisionOf(w))

(* a tally of round 3 that found two votes for one target and one for
   another, with the votes of round 2 still in the ledger *)
EliminationRuleWitness ==
    \E w \in Deciding :
        LET d == DecisionOf(w)
        IN /\ d.result.totalVotes = 3
           /\ Len(d.snapshot.votes) > 3
           /\ Cardinality(DOMAIN d.result.voteCounts) = 2
           /\ d.result.eliminatedPlayerId # ""

(* the end of the game as the claim states it *)
ActiveImpostor(players) ==
    \E i \in DOMAIN players : players[i].isImpostor /\ ~players[i].isEliminated

WinnerRule(players, round, winner) ==
    /\ winner = "humans" <=> ~ActiveImpostor(players)
    /\ winner = "ai" <=> (ActiveImpostor(players) /\ round >= 3)
    /\ winner \in {"humans", "ai", "none"}

(* C7: a tally declares the humans the winners exactly if no impostor is
   active after the elimination, whatever the round; it declares the AI the
   winner exactly if an impostor is still active and the round is 3 or
   later; otherwise the game goes on. *)
WinOrdering ==
    /\ \A w \in Deciding :
          WinnerRule(DecisionOf(w).players, DecisionOf(w).round, DecisionOf(w).winner)
    /\ \A i \in DOMAIN archive :
          /\ WinnerRule(archive[i].players, archive[i].totalRounds, archive[i].winner)
          /\ archive[i].winner # "none"

(* the last impostor is voted out in round 3: the humans win *)
WinOrderingWitness ==
    \E w \in Deciding :
        /\ DecisionOf(w).round = 3
        /\ DecisionOf(w).result.eliminatedRole = "AI"
        /\ DecisionOf(w).winner = "humans"
        /\ loc[w].pc = "archive"
        /\ game.winner = "humans"

(* C8: the game is finished exactly if its phase is GAME_ENDED. *)
TerminalConsistency ==
    game.status = "finished" <=> game.roundPhase = "GAME_ENDED"

(* a step in which the worker w writes the outcome of a tally *)
TallyWrites(w) ==
    loc[w].pc \in {"ta_write", "tv_write"} /\ loc'[w].pc # loc[w].pc

RoundStep ==
    /\ game'.currentRound >= game.currentRound
    /\ \A w \in Workers :
          TallyWrites(w) =>
              game'.currentRound =
                  (IF game'.roundPhase = "ANSWER_SUBMISSION"
                   THEN game.currentRound + 1
                   ELSE game.currentRound)

(* C9: currentRound never decreases; a tally that writes the phase
   ANSWER_SUBMISSION raises it by exactly one, and a tally that writes any
   other phase leaves it as it is. *)
RoundMonotonicity == [][RoundStep]_vars

(* C9, its first part alone: currentRound never decreases. *)
RoundNeverDecreases == [][game'.currentRound >= game.currentRound]_vars

(* C10: once the game has started, rounds has one entry per round 1..currentRound. *)
RoundsMatchCurrentRound ==
    game.status # "waiting" =>
        /\ Len(game.rounds) = game.currentRound
        /\ \A i \in DOMAIN game.rounds : game.rounds[i].round = i

(* C11: the players list never holds more than 4 players, humans and AI
   players together. *)
RosterCapacity == Len(game.players) <= 4

(* C12: each uid appears at most once in players. *)
UniqueUids ==
    \A i, j \in DOMAIN game.players :
        game.players[i].uid = game.players[j].uid => i = j

(* the players flagged as impostors, by position *)
ImpostorIdx == {i \in DOMAIN game.players : game.players[i].isImpostor}

FlagsKept ==
    \A i \in DOMAIN game.players, j \in DOMAIN game'.players :
        game.players[i].uid = game'.players[j].uid =>
            game.players[i].isImpostor = game'.players[j].isImpostor

ImpostorsAssigned ==
    /\ game.status = "waiting" => ImpostorIdx = {}
    /\ game.status # "waiting" =>
          /\ Cardinality(ImpostorIdx) = game.aiCount
          /\ \A i \in DOMAIN game.players :
                game.players[i].isImpostor <=> game.players[i].uid \notin Humans

(* C13: before start no player is an impostor; after start exactly aiCount
   players are, and they are the AI players start_game made, none of the
   users who joined; no step changes the flag of a player who stays in the
   list. *)
ImpostorAssignment == []ImpostorsAssigned /\ [][FlagsKept]_vars

(* start_game has just written a roster with two AI players *)
ImpostorAssignmentWitness ==
    /\ game.aiCount = 2
    /\ game.status = "in_progress"
    /\ Cardinality(ImpostorIdx) = 2
    /\ \E w \in Workers : loc[w].op = "start" /\ loc[w].pc = "enq_read"

(* the answers of round r, by author, in a collection of message documents *)
Authors(docs, r) == {d.authorId : d \in {e \in docs : e.roundNumber = r}}

(* the two-player game after its n-th request has returned *)
After(n) == calls = n /\ AllIdle

(* C14, as the code plays it: after the first tally_answers the game is in
   round 2 and still takes answers, so the answer of h2 is accepted; after
   the second tally_answers the phase is VOTING and the answer of h2 is
   rejected; the second of the two votes against the AI to commit triggers
   the tally, the AI is eliminated and the game ends finished with the
   humans as winners. *)
ScenarioAsBuilt ==
    /\ After(3) => /\ game.roundPhase = "ANSWER_SUBMISSION" /\ game.currentRound = 1
                   /\ Authors(pending, 1) = {Host, AiUid(1)}
    /\ After(4) => /\ game.roundPhase = "ANSWER_SUBMISSION" /\ game.currentRound = 2
                   /\ Authors(messages, 1) = {Host, AiUid(1)}
    /\ After(5) => /\ ret[1] = "ok"
                   /\ Authors(pending, 2) = {"h2", AiUid(1)}
    /\ After(6) => game.roundPhase = "VOTING" /\ game.currentRound = 2
    /\ After(7) => ret[1] = "InvalidState" /\ pending = {}
    /\ (calls >= 7 /\ game.roundPhase = "VOTING") =>
          triggers[2] = (IF Len(game.votes) = 2 THEN 1 ELSE 0)
    /\ After(9) => /\ Len(game.votes) = 2
                   /\ triggers[2] = 1
                   /\ game.lastRoundResult.eliminatedPlayerId = AiUid(1)
                   /\ \A i \in DOMAIN game.players :
                         game.players[i].isEliminated <=> game.players[i].isImpostor
                   /\ game.winner = "humans"
                   /\ game.status = "finished"
                   /\ game.roundPhase = "GAME_ENDED"

(* the game has been played to its end and archived *)
ScenarioAsBuiltWitness ==
    /\ After(9)
    /\ game.status = "finished"
    /\ Len(archive) = 1
    /\ game.currentRound = 2

(* C14, as stated: after start, the host's answer and one tally_answers the
   phase is VOTING, and the answer h2 then submits is rejected. *)
ScenarioAsStated ==
    /\ After(4) => game.roundPhase = "VOTING"
    /\ After(5) => ret[1] = "InvalidState"

(* the session, the staging area, the message log and the archive stay as
   they are *)
StoreKept ==
    /\ game' = game
    /\ pending' = pending
    /\ messages' = messages
    /\ archive' = archive

(* the request of worker w ends now with InvalidState *)
Refused(w) == ret'[w] = "InvalidState" /\ loc'[w] = Idle

(* the cases in which a vote of v against t is to be refused *)
VoteInvalid(v, t) ==
    \/ game.status # "in_progress"
    \/ game.roundPhase # "VOTING"
    \/ v = t
    \/ ~\E i \in DOMAIN game.players : game.players[i].uid = v
    \/ ~\E i \in DOMAIN game.players : game.players[i].uid = t
    \/ HasVoted(v)

(* an execution of the transaction body for the vote of v against t *)
VoteExamined(w, v, t) ==
    /\ StoreKept
    /\ IF VoteInvalid(v, t)
       THEN Refused(w)
       ELSE /\ loc'[w].pc = "txn_commit"
            /\ loc'[w].data.vote = [voterId |-> v, targetId |-> t, round |-> game.currentRound]

VoteCommitted(w) ==
    IF w \in conflict
    THEN StoreKept
    ELSE /\ ~VoteInvalid(loc[w].uid, loc[w].target)
         /\ game' = [game EXCEPT !.votes = Append(game.votes,
                        [voterId |-> loc[w].uid, targetId |-> loc[w].target,
                         round |-> game.currentRound])]
         /\ pending' = pending /\ messages' = messages /\ archive' = archive

VoteValidationStep ==
    \A w \in Workers :
        /\ \A v \in Humans, t \in VoteUids : SubmitVoteRead(w, v, t) => VoteExamined(w, v, t)
        /\ SubmitVoteRetry(w) => VoteExamined(w, loc[w].uid, loc[w].target)
        /\ SubmitVoteCommit(w) => VoteCommitted(w)
        /\ NotFound(w) => (Refused(w) /\ StoreKept)

(* C15: every execution of the submit_vote transaction body ends with
   InvalidState, nothing changed, exactly if the game is not in progress,
   the phase is not VOTING, voter and target are the same, one of them is
   not in players or the voter has a vote for the current round; otherwise
   the vote goes to its commit, and a commit appends exactly that one vote,
   with round = currentRound, and changes nothing else.  An eliminated
   target is accepted. *)
VoteValidation == [][VoteValidationStep]_vars

(* a vote against a player eliminated in the round before is in the ledger *)
VoteValidationWitness ==
    \E i \in DOMAIN game.votes, j \in DOMAIN game.players :
        /\ game.votes[i].round = 3
        /\ game.lastRoundResult.round = 2
        /\ game.votes[i].targetId = game.players[j].uid
        /\ game.players[j].isEliminated
        /\ game.lastRoundResult.eliminatedPlayerId = game.players[j].uid

(* the cases in which an answer of u is to be refused: the session's part,
   and the answer u has already staged for the current round *)
AnswerOutOfTurn(u) ==
    \/ game.status # "in_progress"
    \/ game.roundPhase # "ANSWER_SUBMISSION"
    \/ ~\E i \in DOMAIN game.players : game.players[i].uid = u

HasAnswered(u) ==
    \E d \in pending : d.authorId = u /\ d.roundNumber = game.currentRound

AnswerValidationStep ==
    \A w \in Workers :
        /\ \A u \in Humans :
              AnswerRead(w, u) => (StoreKept /\ (AnswerOutOfTurn(u) => Refused(w)))
        /\ AnswerQuery(w) => (StoreKept /\ (HasAnswered(loc[w].uid) => Refused(w)))
        /\ AnswerAdd(w) =>
              /\ ~AnswerOutOfTurn(loc[w].uid)
              /\ ~HasAnswered(loc[w].uid)
              /\ \E d \in pending' \ pending :
                    /\ pending' = pending \cup {d}
                    /\ d.authorId = loc[w].uid
                    /\ d.roundNumber = game.currentRound
              /\ game' = game /\ messages' = messages /\ archive' = archive

(* C16: submit_answer fails with InvalidState and stages nothing if the game
   is not in progress, the phase is not ANSWER_SUBMISSION, the player is not
   in players or the player has an answer staged for the current round;
   otherwise it stages exactly one answer, with roundNumber = currentRound,
   and changes nothing else. *)
AnswerValidation == [][AnswerValidationStep]_vars

(* the cases in which a join of u is to be refused *)
JoinInvalid(u) ==
    \/ game.status # "waiting"
    \/ Len(game.players) >= 4
    \/ \E i \in DOMAIN game.players : game.players[i].uid = u

JoinValidationStep ==
    \A w \in Workers :
        /\ \A u \in Humans \cup Guests :
              JoinRead(w, u) => (StoreKept /\ (JoinInvalid(u) => Refused(w)))
        /\ JoinWrite(w) =>
              /\ ~JoinInvalid(loc[w].uid)
              /\ game' = [game EXCEPT !.players = Append(game.players,
                             [uid |-> loc[w].uid, isImpostor |-> FALSE,
                              isEliminated |-> FALSE, gameDisplayName |-> 0])]
              /\ ret'[w] = "ok"

(* C17: join_game fails with InvalidState and leaves players unchanged if
   the room is not waiting, holds 4 players already or holds the user
   already; otherwise it appends exactly one player, not an impostor and
   without a display name. *)
JoinValidation == [][JoinValidationStep]_vars

(* the cases in which a start by u is to be refused *)
StartInvalid(u) == u # game.hostId \/ game.status # "waiting"

(* the roster start writes: the users in the room, none an impostor, and
   aiCount new players, all impostors, every display name given once *)
RosterFinalized ==
    LET old == game.players
        new == game'.players
        kept == {j \in DOMAIN new : \E i \in DOMAIN old : old[i].uid = new[j].uid}
    IN /\ Len(new) = Len(old) + game.aiCount
       /\ \A i \in DOMAIN old : \E j \in DOMAIN new : new[j].uid = old[i].uid
       /\ Cardinality(kept) = Len(old)
       /\ \A j \in DOMAIN new : new[j].isImpostor <=> j \notin kept
       /\ \A j \in DOMAIN new : new[j].gameDisplayName # 0
       /\ \A j, k \in DOMAIN new :
             new[j].gameDisplayName = new[k].gameDisplayName => j = k

StartValidationStep ==
    \A w \in Workers :
        /\ \A u \in Humans \cup Guests :
              (StartInvalid(u) /\ StartRead(w, u)) => (StoreKept /\ Refused(w))
        /\ (loc[w].op = "idle" /\ loc'[w].op = "start") =>
              (StoreKept /\ ~StartInvalid(loc'[w].uid))
        /\ StartWrite(w) =>
              /\ ~StartInvalid(loc[w].uid)
              /\ game'.status = "in_progress"
              /\ game'.roundPhase = "ANSWER_SUBMISSION"
              /\ game'.currentRound = 1
              /\ Len(game'.rounds) = 1 /\ game'.rounds[1].round = 1
              /\ RosterFinalized
              /\ pending' = pending /\ messages' = messages /\ archive' = archive

(* C18: start_game fails with InvalidState and changes nothing if the caller
   is not the host or the room is not waiting; otherwise it sets, in one
   write, status in_progress, phase ANSWER_SUBMISSION, currentRound 1,
   rounds to the entry of round 1, and players to the users in the room
   (none an impostor) plus aiCount new AI players (impostors), each with a
   display name no other player has. *)
StartValidation == [][StartValidationStep]_vars

(* the uids of the AI players in a roster *)
AiUidsOf(players) == {players[i].uid : i \in {j \in DOMAIN players : players[j].isImpostor}}

StartOnceStep ==
    /\ \A w \in Workers : StartWrite(w) => game.status = "waiting"
    /\ game.status # "waiting" => AiUidsOf(game'.players) = AiUidsOf(game.players)
    /\ \A w \in Workers :
          (loc[w].op = "start" /\ EnqueueCommit(w)) =>
              \A d \in pending \cup messages : d.roundNumber # 1

(* C19: the roster is finalized at most once (start_game writes only to a
   room that is still waiting), the AI answers of round 1 are staged at most
   once, and the AI uids in players never change after the game has
   started. *)
StartOnce == [][StartOnceStep]_vars

(* the answer phase of the current round is open and its deadline has not
   passed *)
BeforeDeadline ==
    /\ game.status = "in_progress"
    /\ game.roundPhase = "ANSWER_SUBMISSION"
    /\ timer = "running"

DeadlineCheckStep ==
    \A w \in Workers :
        (BeforeDeadline /\ TallyAnswersRead(w)) => (Refused(w) /\ StoreKept)

PhaseKeptStep ==
    BeforeDeadline =>
        /\ game'.roundPhase = game.roundPhase
        /\ game'.currentRound = game.currentRound

(* C20: tally_answers called before the deadline of the open answer phase
   fails with InvalidState, moves no answer and changes no field of the
   game; no step ends an answer phase before its deadline. *)
DeadlineRespected == [][DeadlineCheckStep /\ PhaseKeptStep]_vars

(* The deadline check alone: the call made before the deadline is refused. *)
DeadlineChecked == [][DeadlineCheckStep]_vars

(* the vote of the current round is open *)
VotingOpen == game.status = "in_progress" /\ game.roundPhase = "VOTING"

(* fewer votes are recorded for the current round than there are players who
   are neither eliminated nor impostors *)
VotesMissing ==
    Len(VotesOfRound(game.votes, game.currentRound)) < RequiredVotes(game.players)

ClosingCheckStep ==
    /\ \A w \in Workers :
          (VotingOpen /\ VotesMissing /\ TallyVotesRead(w)) => (Refused(w) /\ StoreKept)
    /\ (VotingOpen /\ VotesMissing) =>
          /\ game'.roundPhase = game.roundPhase
          /\ game'.players = game.players

(* C21: tally_votes called while the vote is open and votes are missing
   fails with InvalidState and changes nothing; nobody is eliminated and the
   phase does not move before every required vote is in. *)
ClosingCheck == [][ClosingCheckStep]_vars

(* the request of worker w returns now without an error *)
Returned(w) == ret'[w] \in {"ok", "noop"} /\ loc'[w] = Idle

IdempotentTallyStep ==
    \A w \in Workers :
        /\ (game.status = "in_progress" /\ game.roundPhase # "ANSWER_SUBMISSION"
               /\ TallyAnswersRead(w)) => (Returned(w) /\ StoreKept)
        /\ (game.status = "in_progress" /\ game.roundPhase # "VOTING"
               /\ (TallyVotesRead(w) \/ TallyVotesTriggered(w))) => (Returned(w) /\ StoreKept)
        /\ (game.status # "in_progress"
               /\ (TallyAnswersRead(w) \/ TallyVotesRead(w) \/ TallyVotesTriggered(w))) =>
              (Refused(w) /\ StoreKept)

(* C22: in a game in progress, tally_answers called in a phase other than
   ANSWER_SUBMISSION and tally_votes called in a phase other than VOTING
   return without an error and leave the game document, the staging area,
   the message log and the archive as they are; both fail with InvalidState
   when the game is not in progress. *)
IdempotentTally == [][IdempotentTallyStep]_vars

(* a tally_answers call has just returned without doing anything: the vote
   was already open *)
IdempotentTallyWitness ==
    /\ VotingOpen
    /\ calls > 0
    /\ \E w \in Workers : ret[w] = "noop" /\ loc[w] = Idle

(* the write of a tally_answers that read round r *)
AdvanceStep ==
    \A w \in Workers :
        TallyAnswersWrite(w) =>
            LET r == loc[w].data.round
                n == Len(game.rounds)
            IN /\ game'.players = game.players /\ game'.votes = game.votes
               /\ game'.status = game.status /\ game'.winner = game.winner
               /\ IF r = 1
                  THEN /\ game'.roundPhase = "ANSWER_SUBMISSION"
                       /\ game'.currentRound = 2
                       /\ \E i \in DOMAIN game'.rounds : game'.rounds[i].round = 2
                       /\ game.currentRound = 1 =>
                             /\ Len(game'.rounds) = n + 1
                             /\ SubSeq(game'.rounds, 1, n) = game.rounds
                             /\ game'.rounds[n + 1].round = 2
                       /\ timer' = "running"
                       /\ loc[w].data.ai # <<>> =>
                             /\ loc'[w].pc = "enq_read"
                             /\ loc'[w].data.round = 2
                             /\ loc'[w].data.ai = loc[w].data.ai
                  ELSE /\ game'.roundPhase = "VOTING"
                       /\ game'.currentRound = game.currentRound
                       /\ game'.rounds = game.rounds
                       /\ timer' = "none"
                       /\ Returned(w)

(* C23: a tally_answers that read round 1 and gets to its write advances the
   game to round 2, still in ANSWER_SUBMISSION, with an entry for round 2 in
   rounds (appended if the game was still in round 1), a new timer and the
   AI answers of round 2 scheduled; one that read a later round sets the
   phase to VOTING, leaves currentRound and rounds as they are and clears
   the timer. *)
AdvanceRule == [][AdvanceStep]_vars

(* the answers of round 3 were tallied and the vote of round 3 is open, no
   timer set *)
AdvanceRuleWitness ==
    /\ VotingOpen
    /\ game.currentRound = 3
    /\ timer = "none"
    /\ calls = 1 /\ AllIdle
    /\ \E w \in Workers : ret[w] = "ok"
    /\ VotesOfRound(game.votes, 3) = <<>>
    /\ pending = {}

(* every answer that was ever staged is in the staging area or in the
   message log, and in one of them only *)
InOnePlace ==
    /\ pending \cap messages = {}
    /\ {d.id : d \in pending \cup messages} = 1..nextId

RevealStep ==
    \A w \in Workers :
        /\ TallyAnswersBatch(w) =>
              \A d \in pending :
                  d.roundNumber = loc[w].data.round => (d \in messages' /\ d \notin pending')
        /\ TallyAnswersWrite(w) =>
              \A d \in pending : d.roundNumber # loc[w].data.round

(* C24: the batch of a tally_answers for round r moves every answer staged
   for round r into the message log and deletes it from the staging area in
   the same step; when the tally writes its transition no answer of round r
   is left in staging; no answer is ever in both places or in neither. *)
AnswerReveal == []InOnePlace /\ [][RevealStep]_vars

(* C24, the part about the two places alone *)
AnswerInOnePlace == []InOnePlace

(* a tally of round 2 that found no vote, one impostor and one human active *)
ParityAt(d) ==
    /\ d.round = 2
    /\ d.result.totalVotes = 0
    /\ Len(Impostors(Active(d.players))) = 1
    /\ Len(Active(d.players)) = 2

ParityStep ==
    \A w \in Workers :
        (TallyVotesWrite(w) /\ ParityAt(loc[w].data.tv)) =>
            /\ game'.status = "finished"
            /\ game'.roundPhase = "GAME_ENDED"
            /\ game'.winner = "ai"

(* C25: a tally_votes of round 2 with no vote cast and as many active
   impostors as active humans (one each) ends the game: status finished,
   phase GAME_ENDED, winner ai. *)
ParityEndsGame == [][ParityStep]_vars

(* the transaction of worker w has just been given up after its last attempt *)
GivenUp(w) == ret[w] = "Conflict"

ConflictTold ==
    \A w \in Workers :
        GivenUp(w) =>
            /\ Raised(ret[w]).type # Raised("InvalidState").type
            /\ VoteResponse(ret[w]).status # VoteResponse("InvalidState").status

ConflictStep ==
    \A w \in Workers : (ret'[w] = "Conflict" /\ ret[w] # "Conflict") => game' = game

(* C26: when the store gives up a submit_vote transaction, the caller gets
   an error of another kind than InvalidState, the endpoint answers with
   another status than the one for failed preconditions, and the call has
   recorded no vote. *)
ConflictDistinct == []ConflictTold /\ [][ConflictStep]_vars

(* C26, its last part alone: the call that is given up records no vote *)
ConflictRecordsNothing == [][ConflictStep]_vars

(* C27: at most one record of the game is ever in game_results, and there
   is none before a tally_votes has written the end of the game. *)
ArchivedOnce ==
    /\ Len(archive) <= 1
    /\ archive # <<>> => game.status = "finished"

(* the batch of _enqueue_ai_answers, whatever the AI service did *)
IsolationStep ==
    \A w \in Workers :
        (EnqueueCommit(w) \/ EnqueueFallback(w)) =>
            LET ai == loc[w].data.ai
                new == pending' \ pending
            IN /\ pending \subseteq pending'
               /\ Cardinality(new) = Len(ai)
               /\ \A i \in DOMAIN ai :
                     \E d \in new :
                         /\ d.authorId = ai[i].uid
                         /\ d.roundNumber = loc[w].data.round
                         /\ d.content \in {"generated", "fallback"}
                         /\ \A e \in new : e.authorId = d.authorId => e = d
               /\ EnqueueFallback(w) => \E d \in new : d.content = "fallback"
               /\ game' = game /\ messages' = messages /\ archive' = archive
               /\ \/ Returned(w)
                  \/ loc'[w].pc = "tv_write" /\ ret'[w] = ret[w]

(* C28: when the generation fails for an AI player, the batch still stages
   exactly one answer for that player (the fallback text) and one for every
   other AI player of the list, and the operation that called
   _enqueue_ai_answers goes on without an error and with the game document
   as it was. *)
FailureIsolation == [][IsolationStep]_vars

(* two AI players have their answers of one round staged, one of them the
   fallback text, and the operation has returned *)
FailureIsolationWitness ==
    /\ AllIdle
    /\ game.status = "in_progress"
    /\ \E d, e \in pending :
          /\ d.content = "fallback" /\ e.content = "generated"
          /\ d.roundNumber = e.roundNumber
          /\ d.authorId # e.authorId
          /\ \E w \in Workers : ret[w] = "ok"

(* an answer of the player uid for round r is staged or revealed *)
HasAnswerFor(docs, uid, r) == \E d \in docs : d.authorId = uid /\ d.roundNumber = r

(* tally_votes calls _enqueue_ai_answers before its update, so when the
   update of a tally that goes on to the next round is written, the call has
   staged what it is going to stage *)
AiAnswersStep ==
    \A w \in Workers :
        (TallyVotesWrite(w) /\ loc[w].data.tv.winner = "none") =>
            LET d == loc[w].data.tv
            IN \A i \in DOMAIN d.players :
                  d.players[i].isImpostor =>
                      (HasAnswerFor(pending' \cup messages', d.players[i].uid, d.round + 1)
                          <=> ~d.players[i].isEliminated)

(* C29: when tally_votes advances the game to round r+1, an answer for round
   r+1 has been staged for every AI player still in the game and for no
   eliminated AI player. *)
AiAnswersAfterTally == [][AiAnswersStep]_vars

(* the write that makes r the current round, with its question in rounds,
   has been committed *)
Established(r) ==
    /\ game.currentRound >= r
    /\ \E i \in DOMAIN game.rounds : game.rounds[i].round = r

(* the generation starts when _enqueue_ai_answers has found the question of
   its round; its results are written by the batch *)
GenerationStep ==
    \A w \in Workers :
        /\ (loc[w].pc = "enq_read" /\ loc'[w].pc = "enq_commit") =>
              Established(loc[w].data.round)
        /\ loc[w].pc = "enq_commit" => w \notin conflict
        /\ (EnqueueCommit(w) \/ EnqueueFallback(w)) =>
              (game' = game /\ Established(loc[w].data.round))

(* C30: the generation of the AI answers of round r starts only when the
   write that establishes round r (currentRound = r, the question of round r
   in rounds) has been committed, it does not run inside a transaction, and
   its results are written afterwards by a batch of their own. *)
GenerationOrdering == [][GenerationStep]_vars

(* the commit of a vote that signals "trigger tally" *)
TriggerStep ==
    \A w \in Workers :
        (loc[w].pc = "txn_commit" /\ loc'[w].pc = "tv_read") =>
            \A u \in Required(game.players) :
                \E i \in DOMAIN game'.votes :
                    /\ game'.votes[i].voterId = u
                    /\ game'.votes[i].round = game.currentRound

(* C31: when a submit_vote transaction signals "trigger tally", every player
   who is neither eliminated nor an impostor has a vote for the current
   round in the ledger, the vote just committed included, whoever else has
   voted in the round. *)
TriggerSound == [][TriggerStep]_vars

(* the rounds and the phases a game goes through *)
RoundsBounded ==
    /\ game.currentRound <= 3
    /\ game.roundPhase = "VOTING" => game.currentRound \in {2, 3}

(* the vote tallies that have written their decision *)
TalliesApplied ==
    applied[<<0, "VOTING">>] + applied[<<1, "VOTING">>]
        + applied[<<2, "VOTING">>] + applied[<<3, "VOTING">>]

(* a vote tally written while the game is in round 3 ends the game *)
LastRoundStep ==
    \A w \in Workers :
        (TallyVotesWrite(w) /\ game.currentRound = 3) => game'.status = "finished"

(* C32: currentRound is at most 3, the phase is VOTING in rounds 2 and 3
   only, a vote tally applied in round 3 ends the game, and at most two vote
   tallies are applied to a game. *)
BoundedRounds ==
    /\ [](RoundsBounded /\ TalliesApplied <= 2)
    /\ [][LastRoundStep]_vars

(* the first part alone: the bounds on the round and the phase *)
RoundsBoundedAlways == []RoundsBounded

(* what the end of the game fixes *)
Outcome(g) ==
    [winner |-> g.winner, players |-> g.players, currentRound |-> g.currentRound,
     roundPhase |-> g.roundPhase, rounds |-> g.rounds, votes |-> g.votes,
     lastRoundResult |-> g.lastRoundResult]

AbsorbingStep ==
    game.status = "finished" =>
        (game'.status = "finished" /\ Outcome(game') = Outcome(game))

(* C33: once the game is finished no step of any operation changes its
   winner, players, currentRound, roundPhase, rounds, votes or
   lastRoundResult, and it stays finished. *)
TerminalAbsorbing == [][AbsorbingStep]_vars

(* an elimination once written stays written *)
EliminationKept ==
    \A i \in DOMAIN game.players :
        game.players[i].isEliminated =>
            \E j \in DOMAIN game'.players :
                /\ game'.players[j].uid = game.players[i].uid
                /\ game'.players[j].isEliminated

(* C35: a player who is eliminated is eliminated in every later state. *)
EliminationPermanent == [][EliminationKept]_vars

(* the submit_vote call of worker w has committed its vote: it is past its
   transaction, in the tally_votes it triggered *)
VoteIsIn(w) ==
    /\ loc[w].op = "vote"
    /\ loc[w].pc \notin {"txn_commit", "txn_retry"}

ErrorAtomicStep ==
    \A w \in Workers :
        (loc[w].op = "vote" /\ ret'[w] \in {"InvalidState", "Conflict"}) => ~VoteIsIn(w)

(* C34: a submit_vote call that ends with an error has added no vote to the
   ledger; an error of the tally_votes it calls after its vote is committed
   is not returned to the voter. *)
ErrorAtomicity == [][ErrorAtomicStep]_vars

(* the write of a tally records the votes of its round as the ledger holds
   them at the write, and a vote is committed only for a round no tally has
   written yet *)
VotesCountedStep ==
    \A w \in Workers :
        /\ TallyVotesWrite(w) =>
              LET d == loc[w].data.tv
                  vs == VotesOfRound(game.votes, d.round)
              IN /\ d.result.totalVotes = Len(vs)
                 /\ DOMAIN d.result.voteCounts = Targets(vs)
                 /\ \A t \in Targets(vs) : d.result.voteCounts[t] = VoteCount(vs, t)
        /\ (loc[w].pc = "txn_commit" /\ game'.votes # game.votes) =>
              applied[<<loc[w].data.vote.round, "VOTING">>] = 0

(* C36: the totals a tally_votes writes for round r are those of the votes
   of round r in the ledger at the moment of the write, and no vote of round
   r is added to the ledger after that write. *)
VotesCounted == [][VotesCountedStep]_vars

(* nothing is staged while a vote is open or the game has ended *)
StagingEmptied == game.roundPhase \in {"VOTING", "GAME_ENDED"} => pending = {}

(* a batch of tally_answers reveals answers of the round it closes only *)
RevealedInTurn ==
    \A w \in Workers :
        TallyAnswersBatch(w) =>
            \A d \in messages' \ messages : d.roundNumber = loc[w].data.round

(* C37: whenever the phase is VOTING or GAME_ENDED the staging area is
   empty, and every message of round r was moved to the log by the
   tally_answers that closed round r. *)
NoAnswerOutlives == []StagingEmptied /\ [][RevealedInTurn]_vars

(* every player of the document is a player of the next state *)
JoinedStay == Uids(game.players) \subseteq Uids(game'.players)

(* once the game has left the waiting room every player has a display name *)
AllNamed ==
    game.status # "waiting" =>
        \A i \in DOMAIN game.players : game.players[i].gameDisplayName # 0

(* C38: a player whose join succeeded is in players in every later state
   and has a display name in every state whose status is not waiting, also
   when the join races with start_game. *)
JoinDurable == []AllNamed /\ [][JoinedStay]_vars

(* the record an archival adds *)
NewRecord == archive'[Len(archive')]

Eliminated(players) == {players[i].uid : i \in {j \in DOMAIN players : players[j].isEliminated}}

ArchiveStep ==
    \A w \in Workers :
        ArchiveGameResult(w) =>
            /\ NewRecord.lastRoundResult = LastRound(DecisionOf(w).result)
            /\ Eliminated(NewRecord.players) = Eliminated(DecisionOf(w).players)
            /\ NewRecord.lastRoundResult.endCondition = "all_impostors_eliminated"
                   <=> NewRecord.winner = "humans"
            /\ NewRecord.lastRoundResult.endCondition = "max_rounds_reached"
                   <=> NewRecord.winner = "ai"

(* C39: the archived record's lastRoundResult (eliminated player and role,
   vote counts, end condition) is the one the terminal tally wrote to the
   game, its players carry the final elimination flags, and its end
   condition is all_impostors_eliminated exactly when the winner is humans
   and max_rounds_reached exactly when the winner is ai. *)
ArchiveFinalRound == [][ArchiveStep]_vars

(* the two parts that do not depend on lastRoundResult *)
ArchiveFlagsStep ==
    \A w \in Workers :
        ArchiveGameResult(w) =>
            /\ Eliminated(NewRecord.players) = Eliminated(DecisionOf(w).players)
            /\ NewRecord.winner = "ai" => NewRecord.lastRoundResult.endCondition = "max_rounds_reached"

ArchiveFlags == [][ArchiveFlagsStep]_vars

(* ------------------------------------------------ the poller keeps calling *)
(* A started game whose two tally endpoints are called again and again (by
   the clients' timers or a poller) for as long as the game lasts.  The
   players' votes are those cast before: a vote may be open with the vote of
   h1 against the first AI in the ledger. *)
PollStarts ==
    Round1 \cup Round2 \cup Voting2 \cup Round3 \cup Voting3
    \cup {s \in {RunVote(t, "h1", "ai1") : t \in Voting2 \cup Voting3} :
              s.game.roundPhase = "VOTING"}

PollAnswers(w) == Free(w) /\ TallyAnswersRead(w) /\ UNCHANGED <<calls, called>>

PollVotes(w) == Free(w) /\ TallyVotesRead(w) /\ UNCHANGED <<calls, called>>

PollStep(w) == TallyStep(w) /\ UNCHANGED <<calls, called>>

PollTick == Tick /\ UNCHANGED <<calls, called>>

NextPoll ==
    \/ \E w \in Workers : PollAnswers(w)
    \/ \E w \in Workers : PollVotes(w)
    \/ \E w \in Workers : PollStep(w)
    \/ PollTick

(* the deadline passes, the poller keeps calling both endpoints, and a
   request that has started makes its next round trip *)
FairPoll ==
    /\ WF_vars(PollTick)
    /\ WF_vars(\E w \in Workers : PollAnswers(w))
    /\ WF_vars(\E w \in Workers : PollVotes(w))
    /\ \A w \in Workers : WF_vars(PollStep(w))

SpecPoll == InitFrom(PollStarts) /\ [][NextPoll]_vars /\ FairPoll

Over == game.status = "finished" /\ game.winner \in {"humans", "ai"}

(* C40: under fairness (the deadline passes, the poller keeps calling
   tally_answers and tally_votes, started requests complete) every game in
   progress eventually is finished with winner humans or ai. *)
Termination == (game.status = "in_progress") ~> Over

TerminationWitness ==
    /\ Over
    /\ game.winner = "humans"
    /\ AllIdle

====
